---------------------------- MODULE Spec2Model ----------------------------
(***************************************************************************)
(* Model of spitest.adapter.Workshop (src/src/spitest/adapter.py): the     *)
(* timer-driven LED mode controller, the rolling-average temperature       *)
(* sampler, the two periodic callbacks and the parameter-tree facade.      *)
(*                                                                         *)
(* Temperatures are integers in quarter degrees (21.5 C = 86, 22.0 C = 88);*)
(* the comparisons and sums the code makes on such values are exact in     *)
(* binary floating point.  avg_temp is kept as the fraction num/den the    *)
(* code computes (sum of the buffer, then one division).                   *)
(***************************************************************************)
EXTENDS Integers, Sequences, FiniteSets, TLC

VARIABLES
    \* ---- fields of Workshop ----
    task_mode,              \* self.task_mode
    led_states,             \* self.led_states, indexed by pin 0..2
    mcp,                    \* output latch of the MCP23008: last level commanded per pin
    rave_ioloop_counter,    \* self.rave_ioloop_counter
    traffic_wait_counter,   \* self.traffic_wait_counter
    traffic_loop_counter,   \* self.traffic_loop_counter
    temp_count,             \* self.temp_count
    avg_temp,               \* self.avg_temp, as [num, den]
    avg_temp_calc,          \* self.avg_temp_calc, slots 0..9 (sequence index slot+1)
    avg_count,              \* self.avg_count
    ten_count_switch,       \* self.ten_count_switch
    temp_bounds,            \* self.temp_bounds, <<lower, upper>>
    LED_task_enable,        \* self.LED_task_enable
    LED_task_interval,      \* self.LED_task_interval, in quarter seconds
    LED_ioloop_task,        \* self.LED_ioloop_task: [status, period]
    temp_task_enable,       \* self.temp_task_enable
    temp_ioloop_task,       \* self.temp_ioloop_task: [status, period]
    \* ---- observation of the last operation ----
    op,                     \* name of the last operation executed
    calls,                  \* output-bank calls mcp.output(pin, level) made by the last operation
    res,                    \* outcome of the last operation: value returned or exception raised
    \* ---- history (not read by any operation) ----
    h_rave_ticks,           \* fast ticks executed while task_mode = 'rave'
    h_rave_calls,           \* output-bank calls made by those ticks
    h_traffic_ticks,        \* fast ticks executed while task_mode = 'traffic'
    h_cycle,                \* [k, base]: k consecutive fast ticks in traffic since phase 0
    h_settled,              \* a traffic tick reached phase 22 and no LED write or mode change since
    h_samples,              \* the last (up to 10) sampled temperatures, oldest first
    h_slow_ticks            \* slow ticks executed since construction

code_vars == <<task_mode, led_states, mcp, rave_ioloop_counter, traffic_wait_counter,
               traffic_loop_counter, temp_count, avg_temp, avg_temp_calc, avg_count,
               ten_count_switch, temp_bounds, LED_task_enable, LED_task_interval,
               LED_ioloop_task, temp_task_enable, temp_ioloop_task>>

hist_vars == <<h_rave_ticks, h_rave_calls, h_traffic_ticks, h_cycle, h_settled, h_samples,
               h_slow_ticks>>

vars == <<code_vars, op, calls, res, hist_vars>>

-----------------------------------------------------------------------------
(* Program constants *)

RED == 2

YELLOW == 1

GREEN == 0

num_pins == 3

WindowSize == 10

CycleLen == 39

Pins == 0 .. (num_pins - 1)

Levels == {0, 1}

\* The four mode names the callbacks test for, and one string they never match.
Modes == {"command", "rave", "traffic", "thermometer", "Traffic"}

-----------------------------------------------------------------------------
(* Bounds of the model *)

\* fast ticks allowed in rave mode
MaxRaveTicks == 2

\* completed traffic loops allowed
MaxLoops == 2

\* fast ticks allowed in traffic mode where the cycle is not explored
MaxTrafficTicks == 2

\* slow ticks allowed where the window is not explored
MaxSlowTicks == 1

\* slow ticks allowed in the thermometer specification
MaxThermoTicks == 2

\* slow ticks allowed in the sampler specification
MaxSamples == 21


-----------------------------------------------------------------------------
(* The output bank and its in-memory mirror *)

\* int(state) for the levels the callers pass (0 and 1)
IntOf(state) == IF state = 0 THEN 0 ELSE 1

\* MCP23008.output(pin, value): the pin is driven high iff value is truthy
PinLevel(value) == IF value = 0 THEN 0 ELSE 1

\* A bank is the pair of pin latch and mirror, with the log of calls made so far.
Bank(m, l, c) == [mcp |-> m, led_states |-> l, calls |-> c]

\* update_led without its second statement: the pin is commanded, the level not recorded
update_led_unrecorded(b, led, state) ==
    [mcp        |-> [b.mcp EXCEPT ![led] = PinLevel(state)],
     led_states |-> b.led_states,
     calls      |-> Append(b.calls, <<led, state>>)]

\* Workshop.update_led: command the pin, then record the level
update_led(b, led, state) ==
    [mcp        |-> [b.mcp EXCEPT ![led] = PinLevel(state)],
     led_states |-> [b.led_states EXCEPT ![led] = IntOf(state)],
     calls      |-> Append(b.calls, <<led, state>>)]

\* set_led_state without its first statement: the pin is commanded, the level not recorded
set_led_state_unrecorded(b, led, state) ==
    [led_states |-> b.led_states,
     mcp        |-> [b.mcp EXCEPT ![led] = PinLevel(state)],
     calls      |-> Append(b.calls, <<led, state>>)]

\* Workshop.set_led_state: record the level, then command the pin
set_led_state(b, led, state) ==
    [led_states |-> [b.led_states EXCEPT ![led] = IntOf(state)],
     mcp        |-> [b.mcp EXCEPT ![led] = PinLevel(state)],
     calls      |-> Append(b.calls, <<led, state>>)]

-----------------------------------------------------------------------------
(* Fast tick: Workshop.LED_ioloop_callback *)

\* The three (random.randint(0, 2), random.randint(0, 1)) draws of one rave tick
RavePicks == [1 .. 3 -> Pins \X Levels]

\* rave branch with range(2) for range(3)
rave_task_two_draws(b, picks) ==
    update_led(update_led(b, picks[1][1], picks[1][2]), picks[2][1], picks[2][2])

\* rave branch: three update_led calls on the drawn pins and levels
rave_task(b, picks) ==
    update_led(update_led(update_led(b, picks[1][1], picks[1][2]),
                          picks[2][1], picks[2][2]),
               picks[3][1], picks[3][2])

\* traffic branch with the cycle closed one tick late (== 40 for == 39)
traffic_task_late_reset(b, wait, loops) ==
    LET c == wait + 1 IN
    IF c = 2 THEN
        [bank |-> update_led(update_led(b, YELLOW, 0), RED, 1), wait |-> c, loops |-> loops]
    ELSE IF c = 14 THEN
        [bank |-> update_led(b, YELLOW, 1), wait |-> c, loops |-> loops]
    ELSE IF c = 22 THEN
        [bank |-> update_led(update_led(update_led(b, RED, 0), YELLOW, 0), GREEN, 1),
         wait |-> c, loops |-> loops]
    ELSE IF c = 34 THEN
        [bank |-> update_led(update_led(b, GREEN, 0), YELLOW, 1), wait |-> c, loops |-> loops]
    ELSE IF c = CycleLen + 1 THEN
        [bank |-> b, wait |-> 0, loops |-> loops + 1]
    ELSE
        [bank |-> b, wait |-> c, loops |-> loops]

\* traffic branch with green lit before red and yellow are put out at 22
traffic_task_green_first(b, wait, loops) ==
    LET c == wait + 1 IN
    IF c = 2 THEN
        [bank |-> update_led(update_led(b, YELLOW, 0), RED, 1), wait |-> c, loops |-> loops]
    ELSE IF c = 14 THEN
        [bank |-> update_led(b, YELLOW, 1), wait |-> c, loops |-> loops]
    ELSE IF c = 22 THEN
        [bank |-> update_led(update_led(update_led(b, GREEN, 1), RED, 0), YELLOW, 0),
         wait |-> c, loops |-> loops]
    ELSE IF c = 34 THEN
        [bank |-> update_led(update_led(b, GREEN, 0), YELLOW, 1), wait |-> c, loops |-> loops]
    ELSE IF c = CycleLen THEN
        [bank |-> b, wait |-> 0, loops |-> loops + 1]
    ELSE
        [bank |-> b, wait |-> c, loops |-> loops]

\* traffic_task if the step at 22 left RED on
traffic_task_red_stays(b, wait, loops) ==
    LET c == wait + 1 IN
    IF c = 2 THEN
        [bank |-> update_led(update_led(b, YELLOW, 0), RED, 1), wait |-> c, loops |-> loops]
    ELSE IF c = 14 THEN
        [bank |-> update_led(b, YELLOW, 1), wait |-> c, loops |-> loops]
    ELSE IF c = 22 THEN
        [bank |-> update_led(update_led(b, YELLOW, 0), GREEN, 1),
         wait |-> c, loops |-> loops]
    ELSE IF c = 34 THEN
        [bank |-> update_led(update_led(b, GREEN, 0), YELLOW, 1), wait |-> c, loops |-> loops]
    ELSE IF c = CycleLen THEN
        [bank |-> b, wait |-> 0, loops |-> loops + 1]
    ELSE
        [bank |-> b, wait |-> c, loops |-> loops]

\* traffic branch: the counter is incremented, then compared with 2, 14, 22, 34, 39
traffic_task(b, wait, loops) ==
    LET c == wait + 1 IN
    IF c = 2 THEN
        [bank |-> update_led(update_led(b, YELLOW, 0), RED, 1), wait |-> c, loops |-> loops]
    ELSE IF c = 14 THEN
        [bank |-> update_led(b, YELLOW, 1), wait |-> c, loops |-> loops]
    ELSE IF c = 22 THEN
        [bank |-> update_led(update_led(update_led(b, RED, 0), YELLOW, 0), GREEN, 1),
         wait |-> c, loops |-> loops]
    ELSE IF c = 34 THEN
        [bank |-> update_led(update_led(b, GREEN, 0), YELLOW, 1), wait |-> c, loops |-> loops]
    ELSE IF c = CycleLen THEN
        [bank |-> b, wait |-> 0, loops |-> loops + 1]
    ELSE
        [bank |-> b, wait |-> c, loops |-> loops]

NoRes == [kind |-> "none"]

NoCycle == [k |-> 0, base |-> 0]

sampler_vars == <<temp_count, avg_temp, avg_temp_calc, avg_count, ten_count_switch>>

timer_vars == <<LED_task_enable, LED_task_interval, LED_ioloop_task,
                temp_task_enable, temp_ioloop_task>>

counter_vars == <<rave_ioloop_counter, traffic_wait_counter, traffic_loop_counter>>

\* LED_ioloop_callback if the traffic test ignored the case of the mode string
LED_ioloop_callback_any_case ==
    /\ LED_ioloop_task.status = "running"
    /\ \E picks \in (IF task_mode = "rave" THEN RavePicks ELSE {<<>>}) :
         LET b0 == Bank(mcp, led_states, <<>>)
             b1 == IF task_mode = "rave" THEN rave_task(b0, picks) ELSE b0
             t  == IF task_mode \in {"traffic", "Traffic"}
                   THEN traffic_task(b1, traffic_wait_counter, traffic_loop_counter)
                   ELSE [bank |-> b1, wait |-> traffic_wait_counter,
                         loops |-> traffic_loop_counter]
         IN
         /\ rave_ioloop_counter' =
                IF task_mode = "rave" THEN rave_ioloop_counter + 1 ELSE rave_ioloop_counter
         /\ traffic_wait_counter' = t.wait
         /\ traffic_loop_counter' = t.loops
         /\ mcp' = t.bank.mcp
         /\ led_states' = t.bank.led_states
         /\ calls' = t.bank.calls
         /\ h_rave_ticks' = IF task_mode = "rave" THEN h_rave_ticks + 1 ELSE h_rave_ticks
         /\ h_rave_calls' = IF task_mode = "rave"
                            THEN h_rave_calls + Len(t.bank.calls) ELSE h_rave_calls
    /\ h_traffic_ticks' = IF task_mode = "traffic" THEN h_traffic_ticks + 1 ELSE h_traffic_ticks
    /\ h_cycle' = IF task_mode # "traffic" THEN NoCycle
                  ELSE IF traffic_wait_counter = 0
                       THEN [k |-> 1, base |-> traffic_loop_counter]
                  ELSE IF h_cycle.k > 0 THEN [h_cycle EXCEPT !.k = @ + 1]
                  ELSE NoCycle
    /\ h_settled' = (task_mode = "traffic" /\ (h_settled \/ traffic_wait_counter + 1 = 22))
    /\ op' = [name |-> "fast_tick"]
    /\ res' = NoRes
    /\ UNCHANGED <<task_mode, sampler_vars, temp_bounds, timer_vars, h_samples, h_slow_ticks>>

\* LED_ioloop_callback if rave were the branch taken by every mode but traffic
LED_ioloop_callback_rave_else ==
    /\ LED_ioloop_task.status = "running"
    /\ \E picks \in (IF task_mode # "traffic" THEN RavePicks ELSE {<<>>}) :
         LET b0 == Bank(mcp, led_states, <<>>)
             b1 == IF task_mode # "traffic" THEN rave_task(b0, picks) ELSE b0
             t  == IF task_mode = "traffic"
                   THEN traffic_task(b1, traffic_wait_counter, traffic_loop_counter)
                   ELSE [bank |-> b1, wait |-> traffic_wait_counter,
                         loops |-> traffic_loop_counter]
         IN
         /\ rave_ioloop_counter' =
                IF task_mode # "traffic" THEN rave_ioloop_counter + 1 ELSE rave_ioloop_counter
         /\ traffic_wait_counter' = t.wait
         /\ traffic_loop_counter' = t.loops
         /\ mcp' = t.bank.mcp
         /\ led_states' = t.bank.led_states
         /\ calls' = t.bank.calls
         /\ h_rave_ticks' = IF task_mode # "traffic" THEN h_rave_ticks + 1 ELSE h_rave_ticks
         /\ h_rave_calls' = IF task_mode # "traffic"
                            THEN h_rave_calls + Len(t.bank.calls) ELSE h_rave_calls
    /\ h_traffic_ticks' = IF task_mode = "traffic" THEN h_traffic_ticks + 1 ELSE h_traffic_ticks
    /\ h_cycle' = IF task_mode # "traffic" THEN NoCycle
                  ELSE IF traffic_wait_counter = 0
                       THEN [k |-> 1, base |-> traffic_loop_counter]
                  ELSE IF h_cycle.k > 0 THEN [h_cycle EXCEPT !.k = @ + 1]
                  ELSE NoCycle
    /\ h_settled' = (task_mode = "traffic" /\ (h_settled \/ traffic_wait_counter + 1 = 22))
    /\ op' = [name |-> "fast_tick"]
    /\ res' = NoRes
    /\ UNCHANGED <<task_mode, sampler_vars, temp_bounds, timer_vars, h_samples, h_slow_ticks>>

LED_ioloop_callback ==
    /\ LED_ioloop_task.status = "running"
    /\ \E picks \in (IF task_mode = "rave" THEN RavePicks ELSE {<<>>}) :
         LET b0 == Bank(mcp, led_states, <<>>)
             b1 == IF task_mode = "rave" THEN rave_task(b0, picks) ELSE b0
             t  == IF task_mode = "traffic"
                   THEN traffic_task(b1, traffic_wait_counter, traffic_loop_counter)
                   ELSE [bank |-> b1, wait |-> traffic_wait_counter,
                         loops |-> traffic_loop_counter]
         IN
         /\ rave_ioloop_counter' =
                IF task_mode = "rave" THEN rave_ioloop_counter + 1 ELSE rave_ioloop_counter
         /\ traffic_wait_counter' = t.wait
         /\ traffic_loop_counter' = t.loops
         /\ mcp' = t.bank.mcp
         /\ led_states' = t.bank.led_states
         /\ calls' = t.bank.calls
         /\ h_rave_ticks' = IF task_mode = "rave" THEN h_rave_ticks + 1 ELSE h_rave_ticks
         /\ h_rave_calls' = IF task_mode = "rave"
                            THEN h_rave_calls + Len(t.bank.calls) ELSE h_rave_calls
    /\ h_traffic_ticks' = IF task_mode = "traffic" THEN h_traffic_ticks + 1 ELSE h_traffic_ticks
    /\ h_cycle' = IF task_mode # "traffic" THEN NoCycle
                  ELSE IF traffic_wait_counter = 0
                       THEN [k |-> 1, base |-> traffic_loop_counter]
                  ELSE IF h_cycle.k > 0 THEN [h_cycle EXCEPT !.k = @ + 1]
                  ELSE NoCycle
    /\ h_settled' = (task_mode = "traffic" /\ (h_settled \/ traffic_wait_counter + 1 = 22))
    /\ op' = [name |-> "fast_tick"]
    /\ res' = NoRes
    /\ UNCHANGED <<task_mode, sampler_vars, temp_bounds, timer_vars, h_samples, h_slow_ticks>>

-----------------------------------------------------------------------------
(* Slow tick: Workshop.temp_ioloop_callback *)

RECURSIVE SumSeq(_)
SumSeq(q) == IF q = <<>> THEN 0 ELSE Head(q) + SumSeq(Tail(q))

\* The naive circular mean: always divide by 10
rolling_average_naive(buf, count, switch, temperature) ==
    LET buf1   == [buf EXCEPT ![count + 1] = temperature]
        count1 == count + 1
        total  == SumSeq(buf1)
    IN
    [buf |-> buf1, avg |-> [num |-> total, den |-> 10],
     count |-> IF count1 = 10 THEN 0 ELSE count1,
     switch |-> switch \/ count1 = 10]

\* "Calculating the rolling average": write the slot, advance the cursor, sum the
\* whole buffer, then divide by the cursor or by 10 and wrap the cursor.
rolling_average(buf, count, switch, temperature) ==
    LET buf1   == [buf EXCEPT ![count + 1] = temperature]
        count1 == count + 1
        total  == SumSeq(buf1)
    IN
    IF switch THEN
        [buf |-> buf1, avg |-> [num |-> total, den |-> 10],
         count |-> IF count1 = 10 THEN 0 ELSE count1, switch |-> switch]
    ELSE IF count1 < 10 THEN
        [buf |-> buf1, avg |-> [num |-> total, den |-> count1],
         count |-> count1, switch |-> switch]
    ELSE
        [buf |-> buf1, avg |-> [num |-> total, den |-> 10], count |-> 0, switch |-> TRUE]

\* thermometer branch with the red and yellow indicators exchanged
thermometer_task_swapped(b, temperature, bounds) ==
    LET off == update_led(update_led(update_led(b, RED, 0), YELLOW, 0), GREEN, 0) IN
    IF temperature < bounds[1] THEN update_led(off, RED, 1)
    ELSE IF temperature < bounds[2] /\ temperature > bounds[1] THEN update_led(off, GREEN, 1)
    ELSE IF temperature > bounds[2] THEN update_led(off, YELLOW, 1)
    ELSE off

\* thermometer branch without the three calls that put the LEDs out
thermometer_task_no_clear(b, temperature, bounds) ==
    IF temperature < bounds[1] THEN update_led(b, YELLOW, 1)
    ELSE IF temperature < bounds[2] /\ temperature > bounds[1] THEN update_led(b, GREEN, 1)
    ELSE IF temperature > bounds[2] THEN update_led(b, RED, 1)
    ELSE b

\* thermometer_task if the lower test were inclusive
thermometer_task_inclusive(b, temperature, bounds) ==
    LET off == update_led(update_led(update_led(b, RED, 0), YELLOW, 0), GREEN, 0) IN
    IF temperature <= bounds[1] THEN update_led(off, YELLOW, 1)
    ELSE IF temperature < bounds[2] /\ temperature > bounds[1] THEN update_led(off, GREEN, 1)
    ELSE IF temperature > bounds[2] THEN update_led(off, RED, 1)
    ELSE off

\* thermometer branch: all three LEDs off, then the if/elif/elif chain on the bounds
thermometer_task(b, temperature, bounds) ==
    LET off == update_led(update_led(update_led(b, RED, 0), YELLOW, 0), GREEN, 0) IN
    IF temperature < bounds[1] THEN update_led(off, YELLOW, 1)
    ELSE IF temperature < bounds[2] /\ temperature > bounds[1] THEN update_led(off, GREEN, 1)
    ELSE IF temperature > bounds[2] THEN update_led(off, RED, 1)
    ELSE off

\* The last 10 samples, oldest first (history)
Remember(samples, temperature) ==
    LET all == Append(samples, temperature) IN
    IF Len(all) > WindowSize THEN Tail(all) ELSE all

\* temperature is what self.thermoC.temperature returns on this tick
temp_ioloop_callback(temperature) ==
    /\ temp_ioloop_task.status = "running"
    /\ LET r == rolling_average(avg_temp_calc, avg_count, ten_count_switch, temperature)
           b0 == Bank(mcp, led_states, <<>>)
           b1 == IF task_mode = "thermometer"
                 THEN thermometer_task(b0, temperature, temp_bounds) ELSE b0
       IN
       /\ avg_temp' = r.avg
       /\ avg_temp_calc' = r.buf
       /\ avg_count' = r.count
       /\ ten_count_switch' = r.switch
       /\ temp_count' = temp_count + 1
       /\ mcp' = b1.mcp
       /\ led_states' = b1.led_states
       /\ calls' = b1.calls
    /\ h_samples' = Remember(h_samples, temperature)
    /\ h_slow_ticks' = h_slow_ticks + 1
    /\ h_cycle' = NoCycle
    /\ h_settled' = h_settled
    /\ op' = [name |-> "slow_tick", temperature |-> temperature]
    /\ res' = NoRes
    /\ UNCHANGED <<task_mode, counter_vars, temp_bounds, timer_vars,
                   h_rave_ticks, h_rave_calls, h_traffic_ticks>>

-----------------------------------------------------------------------------
(* Setters and timer control.  Each *_do operator is the method body; the    *)
(* action of the same name without _do is a direct call of the method.       *)

Raise(exc, msg) == [kind |-> "raise", exc |-> exc, msg |-> msg]

led_vars == <<led_states, mcp>>

h_tick_vars == <<h_rave_ticks, h_rave_calls, h_traffic_ticks, h_samples, h_slow_ticks>>

\* set_task_mode if entering a mode restarted the traffic phase
set_task_mode_do_restart(mode) ==
    /\ task_mode' = mode
    /\ traffic_wait_counter' = 0
    /\ calls' = <<>>
    /\ res' = NoRes
    /\ h_cycle' = NoCycle
    /\ h_settled' = (h_settled /\ task_mode = "traffic" /\ mode = "traffic")
    /\ UNCHANGED <<led_vars, rave_ioloop_counter, traffic_loop_counter, sampler_vars,
                   temp_bounds, timer_vars, h_tick_vars>>

\* Workshop.set_task_mode: self.task_mode = str(mode), for mode a string
set_task_mode_do(mode) ==
    /\ task_mode' = mode
    /\ calls' = <<>>
    /\ res' = NoRes
    /\ h_cycle' = NoCycle
    /\ h_settled' = (h_settled /\ task_mode = "traffic" /\ mode = "traffic")
    /\ UNCHANGED <<led_vars, counter_vars, sampler_vars, temp_bounds, timer_vars, h_tick_vars>>

\* Workshop.set_led_state(led, state), called by the leds/<colour> setters
set_led_state_do(led, state) ==
    /\ LET b == set_led_state(Bank(mcp, led_states, <<>>), led, state) IN
       /\ led_states' = b.led_states
       /\ mcp' = b.mcp
       /\ calls' = b.calls
    /\ res' = NoRes
    /\ h_cycle' = NoCycle
    /\ h_settled' = FALSE
    /\ UNCHANGED <<task_mode, counter_vars, sampler_vars, temp_bounds, timer_vars, h_tick_vars>>

\* Workshop.set_temp_bounds(bound, temp): bound is 0 (lower) or 1 (upper)
set_temp_bounds_do(bound, temp) ==
    /\ temp_bounds' = [temp_bounds EXCEPT ![bound + 1] = temp]
    /\ calls' = <<>>
    /\ res' = NoRes
    /\ h_cycle' = NoCycle
    /\ h_settled' = h_settled
    /\ UNCHANGED <<task_mode, led_vars, counter_vars, sampler_vars, timer_vars, h_tick_vars>>

\* Workshop.set_LED_task_interval: self.LED_task_interval = float(interval)
set_LED_task_interval_do(interval) ==
    /\ LED_task_interval' = interval
    /\ calls' = <<>>
    /\ res' = NoRes
    /\ h_cycle' = NoCycle
    /\ h_settled' = h_settled
    /\ UNCHANGED <<task_mode, led_vars, counter_vars, sampler_vars, temp_bounds,
                   LED_task_enable, LED_ioloop_task, temp_task_enable, temp_ioloop_task,
                   h_tick_vars>>

\* PeriodicCallback(callback, interval * 1000).start(); the period is kept in ms and
\* the interval in quarter seconds.  Tornado refuses a period <= 0 with ValueError.
start_LED_task_result(task, interval) ==
    IF interval * 250 > 0
    THEN [task |-> [status |-> "running", period |-> interval * 250], res |-> NoRes]
    ELSE [task |-> task, res |-> Raise("ValueError", "callback_time")]

\* self.LED_ioloop_task.stop(); the attribute exists only once start_LED_task has run
stop_LED_task_result(task) ==
    IF task.status = "unset"
    THEN [task |-> task, res |-> Raise("AttributeError", "LED_ioloop_task")]
    ELSE [task |-> [task EXCEPT !.status = "stopped"], res |-> NoRes]

\* Workshop.start_LED_task
start_LED_task_do ==
    /\ LED_task_enable' = TRUE
    /\ LET r == start_LED_task_result(LED_ioloop_task, LED_task_interval) IN
       /\ LED_ioloop_task' = r.task
       /\ res' = r.res
    /\ calls' = <<>>
    /\ h_cycle' = NoCycle
    /\ h_settled' = h_settled
    /\ UNCHANGED <<task_mode, led_vars, counter_vars, sampler_vars, temp_bounds,
                   LED_task_interval, temp_task_enable, temp_ioloop_task, h_tick_vars>>

\* Workshop.stop_LED_task
stop_LED_task_do ==
    /\ LED_task_enable' = FALSE
    /\ LET r == stop_LED_task_result(LED_ioloop_task) IN
       /\ LED_ioloop_task' = r.task
       /\ res' = r.res
    /\ calls' = <<>>
    /\ h_cycle' = NoCycle
    /\ h_settled' = h_settled
    /\ UNCHANGED <<task_mode, led_vars, counter_vars, sampler_vars, temp_bounds,
                   LED_task_interval, temp_task_enable, temp_ioloop_task, h_tick_vars>>

\* An operation that returns without touching the controller
Skip_do ==
    /\ calls' = <<>>
    /\ res' = NoRes
    /\ h_cycle' = NoCycle
    /\ h_settled' = h_settled
    /\ UNCHANGED <<code_vars, h_tick_vars>>

\* Workshop.set_LED_task_enable
set_LED_task_enable_do(enable) ==
    IF enable # LED_task_enable
    THEN IF enable THEN start_LED_task_do ELSE stop_LED_task_do
    ELSE Skip_do

set_task_mode(mode) ==
    /\ set_task_mode_do(mode)
    /\ op' = [name |-> "set_task_mode", value |-> mode]

set_temp_bounds(bound, temp) ==
    /\ set_temp_bounds_do(bound, temp)
    /\ op' = [name |-> "set_temp_bounds", bound |-> bound, value |-> temp]

set_LED_task_interval(interval) ==
    /\ set_LED_task_interval_do(interval)
    /\ op' = [name |-> "set_LED_task_interval", interval |-> interval]

set_LED_task_enable(enable) ==
    /\ set_LED_task_enable_do(enable)
    /\ op' = [name |-> "set_LED_task_enable", enable |-> enable]

stop_LED_task ==
    /\ stop_LED_task_do
    /\ op' = [name |-> "stop_LED_task"]

\* Workshop.cleanup: stops the LED task
cleanup ==
    /\ stop_LED_task_do
    /\ op' = [name |-> "cleanup"]

-----------------------------------------------------------------------------
(* Parameter tree built in Workshop.__init__, and Workshop.get / Workshop.set *)

LedPaths == {"leds/red", "leds/yellow", "leds/green"}

BoundPaths == {"temperature/temp_bounds/lower", "temperature/temp_bounds/upper"}

\* The leaves whose getter is a callable (the two version strings are left out)
LeafPaths ==
    {"server_uptime",
     "LED_task/rave_count", "LED_task/traffic_count", "LED_task/enable",
     "LED_task/task_mode", "LED_task/interval",
     "temperature/temperature", "temperature/rolling_avg", "temperature/temps_counted"}
    \cup LedPaths \cup BoundPaths

\* Second element of each leaf's (getter, setter) pair.  "bool" is the value of
\* self.LED_task_enable, which the 'enable' leaf is given where a setter goes.
Setter(path) ==
    CASE path = "LED_task/enable"    -> "bool"
      [] path = "LED_task/task_mode" -> "set_task_mode"
      [] path = "LED_task/interval"  -> "set_LED_task_interval"
      [] path \in LedPaths           -> "set_led_state"
      [] path \in BoundPaths         -> "set_temp_bounds"
      [] OTHER                       -> "None"

\* The pin a leds/<colour> leaf closes over
LedOf(path) ==
    CASE path = "leds/red"    -> RED
      [] path = "leds/yellow" -> YELLOW
      [] path = "leds/green"  -> GREEN

\* The index a temp_bounds leaf closes over
BoundOf(path) == IF path = "temperature/temp_bounds/lower" THEN 0 ELSE 1

\* First element of each leaf's pair, evaluated now; sensed is what the
\* thermocouple returns if it is read
Getter(path, sensed) ==
    CASE path = "server_uptime"             -> "uptime"
      [] path = "LED_task/rave_count"       -> rave_ioloop_counter
      [] path = "LED_task/traffic_count"    -> traffic_loop_counter
      [] path = "LED_task/enable"           -> LED_task_enable
      [] path = "LED_task/task_mode"        -> task_mode
      [] path = "LED_task/interval"         -> LED_task_interval
      [] path \in LedPaths                  -> led_states[LedOf(path)]
      [] path = "temperature/temperature"   -> sensed
      [] path = "temperature/rolling_avg"   -> avg_temp
      [] path = "temperature/temps_counted" -> temp_count
      [] path \in BoundPaths                -> temp_bounds[BoundOf(path) + 1]

\* ParameterTree.get: the leaf's value, or ParameterTreeError for an unknown path
tree_get(path, sensed) ==
    IF path \in LeafPaths
    THEN [kind |-> "return", value |-> Getter(path, sensed)]
    ELSE Raise("ParameterTreeError", "Invalid path")

\* ParameterTree.set: an unknown path and a leaf without a callable setter are
\* both refused with ParameterTreeError, with different messages
tree_set(path) ==
    IF path \notin LeafPaths THEN Raise("ParameterTreeError", "Invalid path")
    ELSE IF Setter(path) \in {"None", "bool"} THEN Raise("ParameterTreeError", "read-only")
    ELSE [kind |-> "call", setter |-> Setter(path)]

\* An operation that fails with outcome r and changes nothing
Fail_do(r) ==
    /\ calls' = <<>>
    /\ res' = r
    /\ h_cycle' = NoCycle
    /\ h_settled' = h_settled
    /\ UNCHANGED <<code_vars, h_tick_vars>>

\* Workshop.get(path)
Workshop_get(path, sensed) ==
    /\ Fail_do(tree_get(path, sensed))
    /\ op' = [name |-> "get", path |-> path]

\* Workshop.set with the ParameterTreeError swallowed (except ...: pass)
Workshop_set_swallow(path, value) ==
    /\ op' = [name |-> "set", path |-> path, value |-> value]
    /\ LET t == tree_set(path) IN
       IF t.kind = "raise" THEN Fail_do(NoRes)
       ELSE CASE t.setter = "set_task_mode"         -> set_task_mode_do(value)
              [] t.setter = "set_LED_task_interval" -> set_LED_task_interval_do(value)
              [] t.setter = "set_led_state"         -> set_led_state_do(LedOf(path), value)
              [] t.setter = "set_temp_bounds"       -> set_temp_bounds_do(BoundOf(path), value)

\* Workshop.set(path, data): ParameterTreeError is re-raised as WorkshopError
Workshop_set(path, value) ==
    /\ op' = [name |-> "set", path |-> path, value |-> value]
    /\ LET t == tree_set(path) IN
       IF t.kind = "raise" THEN Fail_do(Raise("WorkshopError", t.msg))
       ELSE CASE t.setter = "set_task_mode"         -> set_task_mode_do(value)
              [] t.setter = "set_LED_task_interval" -> set_LED_task_interval_do(value)
              [] t.setter = "set_led_state"         -> set_led_state_do(LedOf(path), value)
              [] t.setter = "set_temp_bounds"       -> set_temp_bounds_do(BoundOf(path), value)

-----------------------------------------------------------------------------
(* Construction: Workshop.__init__ *)

Zeros(n) == [i \in 1 .. n |-> 0]

\* 21.50 and 22.00 degrees
DefaultBounds == <<86, 88>>

Construct(led_enable, interval, temp_enable) ==
    /\ mcp = [p \in Pins |-> 0]
    /\ led_states = [p \in Pins |-> 0]
    /\ avg_temp = [num |-> 0, den |-> 1]
    /\ avg_temp_calc = Zeros(WindowSize)
    /\ avg_count = 0
    /\ ten_count_switch = FALSE
    /\ temp_bounds = DefaultBounds
    /\ task_mode = "command"
    /\ LED_task_interval = interval
    /\ rave_ioloop_counter = 0
    /\ traffic_wait_counter = 0
    /\ traffic_loop_counter = 0
    /\ temp_count = 0
    /\ LED_task_enable = led_enable
    /\ LED_ioloop_task = IF led_enable
                         THEN start_LED_task_result([status |-> "unset", period |-> 0],
                                                    interval).task
                         ELSE [status |-> "unset", period |-> 0]
    /\ temp_task_enable = temp_enable
    /\ temp_ioloop_task = IF temp_enable THEN [status |-> "running", period |-> 1000]
                          ELSE [status |-> "unset", period |-> 0]
    /\ op = [name |-> "init"]
    /\ calls = [i \in 1 .. num_pins |-> <<i - 1, 0>>]
    /\ res = NoRes
    /\ h_rave_ticks = 0
    /\ h_rave_calls = 0
    /\ h_traffic_ticks = 0
    /\ h_cycle = NoCycle
    /\ h_settled = FALSE
    /\ h_samples = <<>>
    /\ h_slow_ticks = 0

\* The adapter's defaults: both tasks enabled, interval 0.25 s
Init == Construct(TRUE, 1, TRUE)

-----------------------------------------------------------------------------
(* Inputs *)

\* 21.0, 21.5, 21.75, 22.0, 22.5 degrees
Temps == {84, 86, 87, 88, 90}

\* below, between and above the default bounds
CoarseTemps == {84, 87, 90}

\* two distinct readings for the sampler
SamplerTemps == {84, 90}

\* values written to either bound: 21.5 and 22.0 degrees
BoundVals == {86, 88}

-----------------------------------------------------------------------------
(* Specification of the controller: ticks, mode changes, LED writes and the  *)
(* enable switch, interleaved.  Traffic is held to its first ticks here; the *)
(* full cycle is explored by SpecTraffic.                                    *)

FastTick ==
    /\ task_mode = "rave" => rave_ioloop_counter < MaxRaveTicks
    /\ task_mode = "traffic" => h_traffic_ticks < MaxTrafficTicks
    /\ LED_ioloop_callback

SlowTick ==
    /\ h_slow_ticks < MaxSlowTicks
    /\ \E t \in CoarseTemps : temp_ioloop_callback(t)

SetMode == \E m \in Modes : set_task_mode(m)

LedWrite == \E p \in LedPaths : \E v \in Levels : Workshop_set(p, v)

SetEnable == \E e \in BOOLEAN : set_LED_task_enable(e)

Next == FastTick \/ SlowTick \/ SetMode \/ LedWrite \/ SetEnable

Spec == Init /\ [][Next]_vars

-----------------------------------------------------------------------------
(* Specification of the traffic cycle: every mode but rave, whole cycles.    *)

TrafficModes == Modes \ {"rave"}

TrafficFastTick ==
    /\ traffic_loop_counter < MaxLoops
    /\ LED_ioloop_callback

TrafficSetMode == \E m \in TrafficModes : set_task_mode(m)

NextTraffic == TrafficFastTick \/ TrafficSetMode \/ LedWrite \/ SlowTick \/ SetEnable

SpecTraffic == Init /\ [][NextTraffic]_vars

-----------------------------------------------------------------------------
(* Specification of the thermometer: slow ticks at every temperature around  *)
(* the bounds, bound writes in any order, stale LED state from LED writes.   *)

ThermoTick ==
    /\ h_slow_ticks < MaxThermoTicks
    /\ \E t \in Temps : temp_ioloop_callback(t)

BoundWrite == \E p \in BoundPaths : \E v \in BoundVals : Workshop_set(p, v)

NextThermo == ThermoTick \/ BoundWrite \/ SetMode \/ LedWrite

SpecThermo == Init /\ [][NextThermo]_vars

-----------------------------------------------------------------------------
(* Specification of the sampler: slow ticks past two wraps of the window.    *)

SamplerTick ==
    /\ h_slow_ticks < MaxSamples
    /\ \E t \in SamplerTemps : temp_ioloop_callback(t)

SamplerSetMode == \E m \in {"command", "thermometer"} : set_task_mode(m)

NextSampler == SamplerTick \/ SamplerSetMode

SpecSampler == Init /\ [][NextSampler]_vars

-----------------------------------------------------------------------------
(* Specification of the parameter interface: reads and writes of every leaf  *)
(* and of a path that is not in the tree, between ticks.                     *)

\* 0.25 s and 0.5 s
IntervalVals == {1, 2}

AllPaths == LeafPaths \cup {"leds/blue"}

WriteValues(path) ==
    CASE path \in LedPaths           -> Levels
      [] path = "LED_task/task_mode" -> TrafficModes
      [] path = "LED_task/interval"  -> IntervalVals
      [] path = "LED_task/enable"    -> BOOLEAN
      [] path \in BoundPaths         -> BoundVals
      [] OTHER                       -> {0}

\* The thermocouple is read only by the temperature leaf
Sensed(path) == IF path = "temperature/temperature" THEN CoarseTemps ELSE {0}

ParamGet == \E p \in AllPaths : \E t \in Sensed(p) : Workshop_get(p, t)

ParamSet == \E p \in AllPaths : \E v \in WriteValues(p) : Workshop_set(p, v)

NextParam == ParamGet \/ ParamSet \/ FastTick \/ SlowTick

SpecParam == Init /\ [][NextParam]_vars

-----------------------------------------------------------------------------
(* Specification of the task lifecycle: controllers built with either task   *)
(* enabled or not, the enable switch, stop_LED_task, cleanup and interval    *)
(* writes (zero included, which set_LED_task_interval accepts), between      *)
(* ticks and mode changes.                                                   *)

\* 0 s, 0.25 s and 0.5 s
LifecycleIntervals == {0, 1, 2}

InitLifecycle == \E le \in BOOLEAN : \E te \in BOOLEAN : Construct(le, 1, te)

\* The interval is written by a call of the setter or through its leaf
IntervalWrite ==
    \E v \in LifecycleIntervals :
        set_LED_task_interval(v) \/ Workshop_set("LED_task/interval", v)

StopLED == stop_LED_task

Cleanup == cleanup

NextLifecycle ==
    FastTick \/ SlowTick \/ TrafficSetMode \/ SetEnable \/ StopLED \/ Cleanup \/ IntervalWrite

SpecLifecycle == InitLifecycle /\ [][NextLifecycle]_vars

-----------------------------------------------------------------------------
(* Specification of the traffic counters under interleaving: whole cycles    *)
(* with every kind of operation in between (slow ticks, mode changes, LED    *)
(* writes, bound writes, the enable switch), each with few inputs.           *)

InterleaveModes == {"traffic", "thermometer"}

\* 21.75 degrees: GREEN under the default bounds, RED once upper is lowered
InterleaveTemps == {87}

InterleaveSetMode == \E m \in InterleaveModes : set_task_mode(m)

InterleaveSlowTick ==
    /\ h_slow_ticks < MaxSlowTicks
    /\ \E t \in InterleaveTemps : temp_ioloop_callback(t)

InterleaveBoundWrite ==
    \E v \in BoundVals : Workshop_set("temperature/temp_bounds/upper", v)

NextInterleave ==
    \/ TrafficFastTick
    \/ InterleaveSlowTick
    \/ InterleaveSetMode
    \/ LedWrite
    \/ InterleaveBoundWrite
    \/ SetEnable

SpecInterleave == Init /\ [][NextInterleave]_vars

\* The same controller with the fast trigger firing: while LED_ioloop_task is
\* running the IOLoop keeps calling LED_ioloop_callback, so a fast tick that
\* would change the controller is not put off for ever.
SpecTrafficLive == Init /\ [][NextInterleave]_vars /\ WF_code_vars(TrafficFastTick)

-----------------------------------------------------------------------------
(* Claims *)

\* C1: traffic cycle closure.  After k consecutive fast ticks in traffic mode that
\* began with the phase counter at 0, the phase counter is k and the loop counter
\* is unchanged for k in 1..38; after exactly 39 the phase counter is 0 again and
\* the loop counter has increased by exactly 1.
C1_TrafficCycleClosure ==
    /\ h_cycle.k \in 1 .. 38 =>
         /\ traffic_wait_counter = h_cycle.k
         /\ traffic_loop_counter = h_cycle.base
    /\ h_cycle.k >= 39 =>
         /\ h_cycle.k = 39
         /\ traffic_wait_counter = 0
         /\ traffic_loop_counter = h_cycle.base + 1

\* A second whole cycle has just closed.
C1_Witness ==
    /\ op.name = "fast_tick"
    /\ task_mode = "traffic"
    /\ h_cycle = [k |-> 39, base |-> 1]
    /\ traffic_loop_counter = 2

\* The output-bank calls the k-th tick of a traffic cycle is to make
C2_Table(k) ==
    CASE k = 2  -> << <<YELLOW, 0>>, <<RED, 1>> >>
      [] k = 14 -> << <<YELLOW, 1>> >>
      [] k = 22 -> << <<RED, 0>>, <<YELLOW, 0>>, <<GREEN, 1>> >>
      [] k = 34 -> << <<GREEN, 0>>, <<YELLOW, 1>> >>
      [] OTHER  -> << >>

\* C2: traffic output sequence.  The k-th tick of a traffic cycle started at phase 0
\* makes exactly the output-bank calls of the table, in order, at k = 2, 14, 22, 34,
\* and at every other k makes no call and leaves led_states unchanged.
C2_TrafficOutputSequence ==
    [][ h_cycle'.k >= 1 =>
          /\ calls' = C2_Table(h_cycle'.k)
          /\ h_cycle'.k \notin {2, 14, 22, 34} => led_states' = led_states
      ]_vars

\* Tick 34 of a cycle has just put green out and lit yellow.
C2_Witness ==
    /\ op.name = "fast_tick"
    /\ h_cycle.k = 34
    /\ calls = << <<GREEN, 0>>, <<YELLOW, 1>> >>
    /\ led_states = [p \in Pins |-> IF p = YELLOW THEN 1 ELSE 0]

\* C3: rave accounting.  The rave counter equals the number of fast ticks executed
\* in rave mode, those ticks have made three output-bank calls each, every call of
\* a rave tick names a channel in {0,1,2} and a level in {0,1}, and no other
\* operation moves the counter.
C3_RaveAccounting ==
    /\ rave_ioloop_counter = h_rave_ticks
    /\ h_rave_calls = 3 * h_rave_ticks
    /\ (op.name = "fast_tick" /\ task_mode = "rave") =>
         /\ Len(calls) = 3
         /\ \A i \in 1 .. Len(calls) : calls[i][1] \in {0, 1, 2} /\ calls[i][2] \in {0, 1}

\* Two rave ticks have run, and an operation other than a tick came after them.
C3_Witness ==
    /\ rave_ioloop_counter = 2
    /\ h_rave_calls = 6
    /\ op.name # "fast_tick"

\* Channel c is lit, in memory and on the output bank
Lit(c) == led_states[c] = 1 /\ mcp[c] = 1

\* The last operation was a slow tick taken in thermometer mode
ThermoTicked == op.name = "slow_tick" /\ task_mode = "thermometer"

\* C4 as stated: after a slow tick in thermometer mode at temperature t, for any
\* installed bounds: t < lower lights YELLOW, lower < t < upper lights GREEN,
\* t > upper lights RED.
C4_BandRuleAsStated ==
    ThermoTicked =>
        LET t == op.temperature  lower == temp_bounds[1]  upper == temp_bounds[2] IN
        /\ t < lower => Lit(YELLOW)
        /\ (lower < t /\ t < upper) => Lit(GREEN)
        /\ t > upper => Lit(RED)

\* C4 (amended): after a slow tick in thermometer mode at temperature t, for any
\* installed bounds: t < lower lights YELLOW, lower < t < upper lights GREEN, and
\* t > upper lights RED unless t < lower as well (bounds installed in reverse
\* order), where the first test wins and YELLOW alone is lit.
C4_BandRule ==
    ThermoTicked =>
        LET t == op.temperature  lower == temp_bounds[1]  upper == temp_bounds[2] IN
        /\ t < lower => Lit(YELLOW)
        /\ (lower < t /\ t < upper) => Lit(GREEN)
        /\ (t > upper /\ ~(t < lower)) => Lit(RED)
        /\ (t > upper /\ t < lower) => ~Lit(RED)

\* Bounds (22.0, 21.5), a tick at 21.75: below lower and above upper, YELLOW alone.
C4_Witness ==
    /\ ThermoTicked
    /\ temp_bounds = <<88, 86>>
    /\ op.temperature = 87
    /\ Lit(YELLOW)
    /\ led_states[RED] = 0

\* C5: thermometer mutual exclusion.  After a slow tick in thermometer mode at most
\* one channel is 1, in led_states and on the output bank; the tick has first
\* commanded each of the three channels to 0 and only then at most one channel to 1.
C5_ThermometerExclusive ==
    ThermoTicked =>
        /\ Cardinality({c \in Pins : led_states[c] = 1}) <= 1
        /\ Cardinality({c \in Pins : mcp[c] = 1}) <= 1
        /\ Len(calls) \in {3, 4}
        /\ {calls[i][1] : i \in 1 .. 3} = {RED, YELLOW, GREEN}
        /\ \A i \in 1 .. 3 : calls[i][2] = 0
        /\ Len(calls) = 4 => calls[4][2] = 1

\* A tick has lit GREEN alone under bounds written in the default order.
C5_Witness ==
    /\ ThermoTicked
    /\ Len(calls) = 4
    /\ led_states = [p \in Pins |-> IF p = GREEN THEN 1 ELSE 0]
    /\ h_slow_ticks = 2

Min(a, b) == IF a < b THEN a ELSE b

\* C6: rolling average divisor.  After the n-th slow tick, avg_temp is the sum of the
\* last min(n, 10) samples over the divisor min(n, 10).
C6_RollingAverage ==
    h_slow_ticks >= 1 =>
        /\ Len(h_samples) = Min(h_slow_ticks, 10)
        /\ avg_temp.den = Min(h_slow_ticks, 10)
        /\ avg_temp.num = SumSeq(h_samples)

\* The 21st sample has been written to slot 0 after two wraps; the window is mixed.
C6_Witness ==
    /\ h_slow_ticks = 21
    /\ avg_count = 1
    /\ ten_count_switch
    /\ avg_temp.den = 10
    /\ avg_temp.num = 84 * 4 + 90 * 6

\* C7: LED mirror.  In every state, for each channel the level in led_states is the
\* level last commanded on the output bank for that channel (0 if none since
\* construction).
C7_LedMirror ==
    \A c \in Pins :
        /\ led_states[c] = mcp[c]
        /\ \A i \in 1 .. Len(calls) :
             (calls[i][1] = c /\ \A j \in (i + 1) .. Len(calls) : calls[j][1] # c)
                 => led_states[c] = calls[i][2]

\* All three channels are lit and the last writer was a rave tick that lit GREEN
\* after the other two had been lit by other operations.
C7_Witness ==
    /\ led_states = [p \in Pins |-> 1]
    /\ op.name = "fast_tick"
    /\ task_mode = "rave"
    /\ calls = << <<GREEN, 0>>, <<GREEN, 0>>, <<GREEN, 1>> >>

\* The pin of each colour (Workshop.RED, YELLOW, GREEN)
C8_Pin(path) ==
    CASE path = "leds/red"    -> RED
      [] path = "leds/yellow" -> YELLOW
      [] path = "leds/green"  -> GREEN

\* C8: LED write round trip.  A write of v to leds/c succeeds with exactly one
\* output-bank call (pin of c, v), leaves the other two channels, the mode and all
\* counters unchanged, and a read of leds/c made right after it returns v.
C8_LedWriteRoundTrip ==
    [][ /\ (op'.name = "set" /\ op'.path \in LedPaths) =>
              /\ res'.kind = "none"
              /\ calls' = << <<C8_Pin(op'.path), op'.value>> >>
              /\ \A c \in Pins \ {C8_Pin(op'.path)} :
                    led_states'[c] = led_states[c] /\ mcp'[c] = mcp[c]
              /\ task_mode' = task_mode
              /\ UNCHANGED <<rave_ioloop_counter, traffic_wait_counter,
                             traffic_loop_counter, temp_count>>
        /\ (op.name = "set" /\ op.path \in LedPaths /\ op'.name = "get" /\ op'.path = op.path) =>
              res' = [kind |-> "return", value |-> op.value]
      ]_vars

\* leds/red has just been read as 1 while the other two channels are 0.
C8_Witness ==
    /\ op = [name |-> "get", path |-> "leds/red"]
    /\ res = [kind |-> "return", value |-> 1]
    /\ led_states = [p \in Pins |-> IF p = RED THEN 1 ELSE 0]

\* The leaves the claim lists as having no setter
C9_ReadOnly ==
    {"LED_task/rave_count", "LED_task/traffic_count", "temperature/rolling_avg",
     "temperature/temps_counted", "temperature/temperature", "server_uptime"}

\* C9: parameter-interface errors.  A write to a leaf without a setter fails as
\* read-only, a read or write of a path that is not in the tree fails as not found,
\* the two outcomes differ, and a failed read or write changes nothing of the
\* controller.
C9_ParameterErrors ==
    [][ /\ (op'.name = "set" /\ op'.path \in C9_ReadOnly) =>
              (res'.kind = "raise" /\ res'.msg = "read-only")
        /\ (op'.name \in {"get", "set"} /\ op'.path = "leds/blue") =>
              (res'.kind = "raise" /\ res'.msg = "Invalid path")
        /\ (op'.name \in {"get", "set"} /\ res'.kind = "raise") => UNCHANGED code_vars
      ]_vars

\* A write to server_uptime has been refused as read-only after the controller
\* had left its initial state.
C9_Witness ==
    /\ op.name = "set"
    /\ op.path = "server_uptime"
    /\ res = Raise("WorkshopError", "read-only")
    /\ task_mode = "traffic"
    /\ traffic_wait_counter = 2

\* C10: a write to LED_task/enable succeeds, LED_task/enable then reads as the
\* value written, and the fast trigger runs iff that value is true.
C10_EnableWriteTakesEffect ==
    (op.name = "set" /\ op.path = "LED_task/enable") =>
        /\ res.kind = "none"
        /\ LED_task_enable = op.value
        /\ (LED_ioloop_task.status = "running") = op.value

-----------------------------------------------------------------------------
(* Task lifecycle, teardown and mode changes *)

\* The operation recorded in o asked for the fast task to be switched off
C11_Disable(o) ==
    \/ o.name = "stop_LED_task"
    \/ (o.name = "set_LED_task_enable" /\ ~o.enable)

\* C11: disabling the fast task (set_LED_task_enable(False) or stop_LED_task) raises
\* no error and leaves the fast trigger not running with LED_task_enable false; a
\* second disable right after a disable changes nothing of the controller; and
\* neither disabling nor re-enabling changes the rave counter, the traffic counters,
\* the mode or led_states.
C11_DisableIdempotent ==
    [][ /\ C11_Disable(op') =>
              /\ res'.kind = "none"
              /\ ~LED_task_enable'
              /\ LED_ioloop_task'.status # "running"
        /\ (C11_Disable(op) /\ C11_Disable(op')) => UNCHANGED code_vars
        /\ op'.name \in {"stop_LED_task", "set_LED_task_enable"} =>
              UNCHANGED <<counter_vars, task_mode, led_states>>
      ]_vars

\* The modes whose name neither tick matches
C12_Unmatched == Modes \ {"rave", "traffic", "thermometer"}

\* C12: in 'command' mode and in any mode string that matches no branch, a fast
\* tick and a slow tick make no output-bank call and leave led_states, the bank's
\* outputs, the rave counter and the traffic counters as they were; in
\* 'thermometer' mode the fast tick does the same.
C12_NoOpModes ==
    [][ /\ (op'.name \in {"fast_tick", "slow_tick"} /\ task_mode \in C12_Unmatched) =>
              (calls' = <<>> /\ UNCHANGED <<led_vars, counter_vars>>)
        /\ (op'.name = "fast_tick" /\ task_mode = "thermometer") =>
              (calls' = <<>> /\ UNCHANGED <<led_vars, counter_vars>>)
      ]_vars

\* A fast tick has run in the unmatched mode 'Traffic' with RED lit, at phase 1 of
\* the second traffic cycle, and it made no call.
C12_Witness ==
    /\ op.name = "fast_tick"
    /\ task_mode = "Traffic"
    /\ calls = <<>>
    /\ led_states[RED] = 1
    /\ traffic_wait_counter = 1
    /\ traffic_loop_counter = 1

\* C13 as stated: in every mode other than thermometer and traffic, a fast tick
\* never calls the output bank.
C13_FastTickSilentAsStated ==
    (op.name = "fast_tick" /\ task_mode \notin {"thermometer", "traffic"}) => calls = <<>>

\* C13: in every mode other than rave and traffic, a fast tick never calls the
\* output bank; in rave mode it calls it exactly three times.
C13_FastTickSilent ==
    /\ (op.name = "fast_tick" /\ task_mode \notin {"rave", "traffic"}) => calls = <<>>
    /\ (op.name = "fast_tick" /\ task_mode = "rave") => Len(calls) = 3

\* A fast tick has run in thermometer mode while GREEN was lit, and made no call.
C13_Witness ==
    /\ op.name = "fast_tick"
    /\ task_mode = "thermometer"
    /\ led_states[GREEN] = 1
    /\ calls = <<>>

\* C14: once cleanup() has run, both periodic triggers are stopped and the next
\* step of the controller is never a fast or a slow tick.
C14_TeardownStopsTimers ==
    [][ /\ op'.name = "cleanup" =>
              /\ LED_ioloop_task'.status # "running"
              /\ temp_ioloop_task'.status # "running"
        /\ op.name = "cleanup" => op'.name \notin {"fast_tick", "slow_tick"}
      ]_vars

\* No LED is lit
C15_Dark == \A c \in Pins : led_states[c] = 0 /\ mcp[c] = 0

\* Only LED c is lit
C15_Only(c) == \A d \in Pins : (led_states[d] = 1) = (d = c) /\ mcp[d] = led_states[d]

\* C15 as stated: for any installed bounds, after a slow tick in thermometer mode at
\* a temperature equal to the lower or to the upper bound, all three LEDs are 0.
C15_EqualityAsStated ==
    (ThermoTicked /\ op.temperature \in {temp_bounds[1], temp_bounds[2]}) => C15_Dark

\* C15 (amended): after a slow tick in thermometer mode at a temperature t equal to
\* the lower or to the upper bound, all three LEDs are 0 when lower <= upper; when
\* lower > upper, t = upper lights YELLOW alone and t = lower lights RED alone.
C15_Equality ==
    ThermoTicked =>
        LET t == op.temperature  lower == temp_bounds[1]  upper == temp_bounds[2] IN
        /\ (t \in {lower, upper} /\ lower <= upper) => C15_Dark
        /\ (t = upper /\ lower > upper) => C15_Only(YELLOW)
        /\ (t = lower /\ lower > upper) => C15_Only(RED)

\* A slow tick in thermometer mode has sampled exactly the upper bound of (21.5,
\* 22.0) and left every LED off.
C15_Witness ==
    /\ ThermoTicked
    /\ temp_bounds = <<86, 88>>
    /\ op.temperature = 88
    /\ Len(calls) = 3
    /\ C15_Dark

\* C16: after any interval writes and any enabling and disabling, LED_task_interval
\* is strictly positive, and a fast trigger that is started is started with a
\* strictly positive period, the one of the interval configured at that moment
\* (periods are in ms, intervals in quarter seconds).
C16_IntervalPositive ==
    [][ /\ LED_task_interval' > 0
        /\ (LED_ioloop_task'.status = "running" /\ LED_ioloop_task.status # "running") =>
              /\ LED_ioloop_task'.period > 0
              /\ LED_ioloop_task'.period = LED_task_interval * 250
      ]_vars

\* C17: set_task_mode(m) sets task_mode to m and changes nothing else: it makes no
\* output-bank call and leaves led_states, the bank's outputs, the three counters,
\* temp_bounds, the sample window and the timers as they were.  No step taken in a
\* mode other than traffic moves the traffic counters, so a controller that left
\* traffic at phase p re-enters it at phase p.
C17_ModeSwitchFrame ==
    [][ /\ op'.name = "set_task_mode" =>
              /\ task_mode' = op'.value
              /\ res'.kind = "none"
              /\ calls' = <<>>
              /\ UNCHANGED <<led_vars, counter_vars, temp_bounds, sampler_vars, timer_vars>>
        /\ task_mode # "traffic" => UNCHANGED <<traffic_wait_counter, traffic_loop_counter>>
      ]_vars

\* Traffic has been re-entered at phase 1, after a rave tick and a sample taken
\* since, with RED lit.
C17_Witness ==
    /\ op.name = "set_task_mode"
    /\ op.value = "traffic"
    /\ task_mode = "traffic"
    /\ traffic_wait_counter = 1
    /\ rave_ioloop_counter = 1
    /\ temp_count = 1
    /\ led_states[RED] = 1

\* C18: under any interleaving of fast and slow ticks, mode changes, LED writes,
\* bound writes and enabling or disabling, with T the number of fast ticks
\* executed in traffic mode: traffic_wait_counter is in 0 .. 38 and equals T mod 39,
\* traffic_loop_counter equals T div 39, and traffic_loop_counter never decreases.
C18_TrafficCounters ==
    [][ /\ traffic_wait_counter' \in 0 .. CycleLen - 1
        /\ traffic_wait_counter' = h_traffic_ticks' % CycleLen
        /\ traffic_loop_counter' = h_traffic_ticks' \div CycleLen
        /\ traffic_loop_counter' >= traffic_loop_counter
      ]_vars

\* Forty traffic ticks have run, with a sample taken and the upper bound rewritten in
\* between: phase 1 of the second cycle.
C18_Witness ==
    /\ h_traffic_ticks = CycleLen + 1
    /\ traffic_wait_counter = 1
    /\ traffic_loop_counter = 1
    /\ op.name = "fast_tick"
    /\ task_mode = "traffic"
    /\ temp_count = 1
    /\ temp_bounds = <<86, 86>>

\* C19: cleanup() and set_LED_task_enable(b) return without raising in every
\* reachable state, a controller built with the fast task disabled and one whose
\* fast task was already stopped included.
C19_NoCrash ==
    op.name \in {"cleanup", "set_LED_task_enable"} => res.kind = "none"

\* The lights of phase p of a traffic cycle that has passed its step at 22:
\* RED from 2, RED and YELLOW from 14, GREEN from 22, YELLOW from 34 to phase 1
\* of the next cycle.
C20_Lights(p) ==
    [c \in Pins |->
        IF c = RED THEN (IF p \in 2 .. 21 THEN 1 ELSE 0)
        ELSE IF c = YELLOW THEN (IF p \in 14 .. 21 \/ p >= 34 \/ p < 2 THEN 1 ELSE 0)
        ELSE (IF p \in 22 .. 33 THEN 1 ELSE 0)]

\* The fast trigger is running in traffic mode
C20_Ticking == task_mode = "traffic" /\ LED_ioloop_task.status = "running"

\* C20: under weak fairness of the fast tick, from every phase of every cycle
\* within the bound, a controller in traffic mode with its fast task enabled gets
\* back to phase 0 with traffic_loop_counter incremented, unless the mode is changed
\* or the task disabled before; and once a traffic tick has reached phase 22, with
\* no LED write or mode change since, the LEDs are those of the phase, whatever
\* they were on entry, and RED and GREEN are never 1 together.
C20_TrafficProgress ==
    /\ \A n \in 0 .. MaxLoops - 1 :
          (C20_Ticking /\ traffic_loop_counter = n)
              ~> \/ (traffic_wait_counter = 0 /\ traffic_loop_counter = n + 1)
                 \/ ~C20_Ticking
    /\ [](h_settled =>
              /\ led_states = C20_Lights(traffic_wait_counter)
              /\ mcp = led_states
              /\ ~(led_states[RED] = 1 /\ led_states[GREEN] = 1))

\* The second cycle has been completed in traffic mode, entered with GREEN and RED
\* both lit, with the lights settled since phase 22.
C20_Witness ==
    /\ C20_Ticking
    /\ op.name = "fast_tick"
    /\ h_settled
    /\ traffic_wait_counter = 0
    /\ traffic_loop_counter = MaxLoops
    /\ led_states = C20_Lights(0)

=============================================================================
